---- MODULE Spec2Model ----
(***************************************************************************)
(* Ingestion core of backend/open_webui/routers/retrieval.py:              *)
(*   - save_docs_to_vector_db  (duplicate check, split, metadata merge,    *)
(*     has_collection / delete_collection, embedding, batched inserts      *)
(*     through a ThreadPoolExecutor guarded by a BoundedSemaphore);        *)
(*   - process_files_batch     (per-file preparation, duplicate lookup,    *)
(*     one shared save_docs_to_vector_db call, per-file statuses).         *)
(* The vector store, the file store, the splitter and the embedding        *)
(* function are external: they are modelled by their contract and by a     *)
(* nondeterministic choice where they may fail.                            *)
(***************************************************************************)
EXTENDS Integers, Sequences, FiniteSets, TLC

(* ------------------------------ bounds -------------------------------- *)
\* number of concurrently running requests
NumProcs == 2
\* number of chunks the splitter produces for the long document
BigChunks == 21
\* number of files of one process_files_batch request
MaxFiles == 3
\* number of documents of one direct call with arbitrary arguments
MaxDocs == 2
\* number of items offered to the vector store on its own
MaxStoreItems == 4
\* longest chunk text handed to the header step (in tokens)
MaxTextLen == 7
\* longest knowledge-base name and longest owner id (in characters)
MaxNameLen == 3
MaxIdLen == 3
\* largest small value of the max_size and min_size arguments of the sizer
MaxSizeArg == 6
\* tasks created by create_task, and calls of stop_task
MaxTasks == 2
MaxStops == 2
\* rows of the files table, knowledge bases, seconds the clock advances
MaxRecords == 2
MaxKnowledge == 2
MaxClock == 3

Procs == 1..NumProcs

(* --------------------------- program constants ------------------------ *)
\* BoundedSemaphore(value=5)
SemaphoreValue == 5
\* min(4, len(batches))
PoolCap == 4
\* get_dynamic_batch_size(max_size=1000, min_size=10)
DefaultMaxSize == 1000
DefaultMinSize == 10
\* 24 * 60 * 60, the age in seconds of an expired file
DAY == 86400

DUPLICATE_CONTENT == "DUPLICATE_CONTENT"
EMPTY_CONTENT == "EMPTY_CONTENT"
METADATA_MISMATCH == "Metadata length mismatch"
INVALID_SPLITTER == "Invalid text splitter"
INSERT_ERROR == "insert failed"
EMBED_ERROR == "embedding failed"
QUERY_ERROR == "query failed"
FILES_ERROR == "file store failed"
DEFAULT_ERROR_MSG == "Internal error occruced while processing request"
NoArgs == ""

(* ------------------------------ inputs -------------------------------- *)
\* document contents: the empty string, two short texts, one long text
Contents == {"", "a", "b", "ab", "big"}
\* contents of the documents of direct calls
SmallContents == {"", "a", "ab"}
\* content hash stored with items that carry no hash in their metadata
NoHash == <<"nohash", "">>

\* hashlib.sha256(...).hexdigest(): a digest, one value per content
calculate_sha256_string(content) == <<"sha256", content>>

\* text_splitter.split_documents([doc]): number of chunks of one document
NumChunks(content) ==
    IF content = "" THEN 0
    ELSE IF content = "big" THEN BigChunks
    ELSE IF content = "ab" THEN 2
    ELSE 1

\* psutil readings (percent, MB) around the thresholds of the batch sizer
CpuReadings == {0, 49, 50, 74, 75, 100}
MemReadings == {0, 500, 501, 1000, 1001, 4000}

\* a maximum that keeps its first argument
Max_First(a, b) == a

Max(a, b) == IF a >= b THEN a ELSE b
Min(a, b) == IF a <= b THEN a ELSE b

\* thresholds that include their boundary reading
get_dynamic_batch_size_Inclusive(cpu_percent, available_mem_mb, max_size, min_size) ==
    IF cpu_percent <= 50 /\ available_mem_mb >= 1000 THEN max_size
    ELSE IF cpu_percent <= 75 /\ available_mem_mb >= 500
         THEN Max(max_size \div 2, min_size)
         ELSE min_size

get_dynamic_batch_size(cpu_percent, available_mem_mb, max_size, min_size) ==
    IF cpu_percent < 50 /\ available_mem_mb > 1000 THEN max_size
    ELSE IF cpu_percent < 75 /\ available_mem_mb > 500
         THEN Max(max_size \div 2, min_size)
         ELSE min_size

\* getErrorMsg(e): e.args[0] when present and truthy, else the generic text
getErrorMsg(arg) == IF arg # NoArgs THEN arg ELSE DEFAULT_ERROR_MSG

VARIABLES
    store,      \* the collection: [exists, items]
    sem,        \* free permits of CONCURRENT_INSERTION_SEMAPHORE
    kind,       \* kind[p]: "save" (direct call) or "batch" (process_files_batch)
    pc,         \* control point of each request
    req,        \* arguments of the save_docs_to_vector_db call of p
    items,      \* items built by the call (after split, merge, embedding)
    batches,    \* the submitted batches of the call: slice and status
    outcome,    \* how the save call ended: "none", "True" or the error
    effects,    \* what the save call did: queries, embedded, deleted
    order,      \* order[p]: requests that had ended when p started
    files,      \* form_data.files of the batch request
    fidx,       \* index of the file the loop is at
    results,    \* results list of the batch request
    errors,     \* errors list of the batch request
    all_docs,   \* documents collected for the shared insertion call
    bq,         \* duplicate-detection queries issued by the batch request
    resp,       \* how process_files_batch ended: "none", "returned", "raised"
    fn,         \* a function called on its own: arguments, result
    tasks,      \* the global task registry of tasks.py: task id -> task
    task_state, \* state of every asyncio task created by create_task
    callbacks,  \* done callbacks the event loop has scheduled, not yet run
    issued,     \* task ids uuid4 has produced so far
    stops,      \* the stop_task calls made: id, awaited task, result
    now,        \* time.time(), in seconds
    file_rows,  \* rows of the files table: id, user_id, created_at
    knowledge_rows, \* data.file_ids of every knowledge base
    vectors,    \* vectors of the user collections: collection, file_id
    cycle       \* the running cycle of periodic_file_cleanup

saveVars == <<req, items, batches, outcome, effects>>
batchVars == <<files, fidx, results, errors, all_docs, bq, resp>>
taskVars == <<tasks, task_state, callbacks, issued, stops>>
cleanupVars == <<now, file_rows, knowledge_rows, vectors, cycle>>
backgroundVars == <<taskVars, cleanupVars>>
vars == <<store, sem, kind, fn, pc, order, saveVars, batchVars,
          backgroundVars>>

\* req.meta is the shape of the metadata argument: "none", "dict" (one
\* mapping for all documents) or "list" (one mapping per document);
\* req.metas holds the mappings, reduced to their hash and file_id
\* req.TEXT_SPLITTER is request.app.state.config.TEXT_SPLITTER as the call
\* reads it
NoReq == [docs |-> <<>>, meta |-> "none", metas |-> <<>>,
          overwrite |-> FALSE, add |-> FALSE, split |-> TRUE,
          TEXT_SPLITTER |-> "character"]
\* effects.splitter is the splitter class the call constructed
NoEffects == [embedded |-> FALSE, deleted |-> FALSE, queried |-> FALSE,
              splitter |-> "none"]
\* no function is examined on its own
NoCall == [op |-> "none"]

(* ---------------------------- vector store ---------------------------- *)
\* a query whose filter names a field no item carries: it never matches
QueryByHash_WrongField(st, h) == {}

\* VECTOR_DB_CLIENT.query(collection_name, filter={"hash": h}).ids[0];
\* a collection that does not exist gives no result (None)
QueryByHash(st, h) ==
    IF st.exists THEN {it \in st.items : it.hash = h} ELSE {}

\* a query that ignores its filter and returns every item
QueryByFileId_NoFilter(st, file_id) ==
    [ids |-> << {it.id : it \in st.items} >>]

\* VECTOR_DB_CLIENT.query(collection_name, filter={"file_id": file_id}):
\* the result holds one group per query, here the single group at index 0
\* (index 1 of the tuple), with the ids of the items whose metadata
\* file_id is the one asked for; a collection that does not exist gives
\* an empty group
QueryByFileId(st, file_id) ==
    [ids |-> << {it.id : it \in {x \in st.items : x.file = file_id}} >>]

\* VECTOR_DB_CLIENT.insert: creates the collection on first insert
InsertItems(st, its) == [exists |-> TRUE, items |-> st.items \cup its]

\* VECTOR_DB_CLIENT.delete_collection
DeleteCollection(st) == [exists |-> FALSE, items |-> {}]

(* ----------------------- save_docs_to_vector_db ----------------------- *)
Ended(p) == pc[p] \in {"done", "raised", "b_done", "b_raised"}

\* where control goes when the save call of p ends with result out
AfterSave(p, out) ==
    IF kind[p] = "save"
    THEN (IF out = "True" THEN "done" ELSE "raised")
    ELSE (IF out = "True" THEN "b_complete" ELSE "b_fail")

EndSave(p, out) ==
    /\ outcome' = [outcome EXCEPT ![p] = out]
    /\ pc' = [pc EXCEPT ![p] = AfterSave(p, out)]

\* the chunks of a list of documents: each document split on its own
RECURSIVE SplitDocs(_)
SplitDocs(ds) ==
    IF ds = <<>> THEN <<>>
    ELSE [i \in 1..NumChunks(Head(ds).content) |-> Head(ds)]
         \o SplitDocs(Tail(ds))

\* a metadata value is <<type, printed form>>; one value of each type
\* that matters to the merge
MetaValues ==
    { <<"None", "None">>, <<"str", "s">>, <<"int", "1">>,
      <<"datetime", "2024-01-01 00:00:00">>, <<"list", "[1]">>,
      <<"dict", "{}">> }
\* str(value): a string that holds the printed form of the value
StrOf(value) == <<"str", value[2]>>
\* json.dumps({...}): a string
EmbeddingConfig == <<"str", "json">>

\* {**a, **b}: the keys of both, b wins
DictMerge(a, b) ==
    [k \in (DOMAIN a) \cup (DOMAIN b) |-> IF k \in DOMAIN b THEN b[k] ELSE a[k]]
\* {k: v for k, v in m.items() if v is not None}
DropNone(m) == [k \in {x \in DOMAIN m : m[x][1] # "None"} |-> m[k]]
\* m["embedding_config"] = json.dumps(...)
WithEmbeddingConfig(m) ==
    [k \in (DOMAIN m) \cup {"embedding_config"} |->
        IF k = "embedding_config" THEN EmbeddingConfig ELSE m[k]]
\* a conversion that handles datetime values only
Stringify_DatetimeOnly(m) ==
    [k \in DOMAIN m |-> IF m[k][1] = "datetime" THEN StrOf(m[k]) ELSE m[k]]

\* lines 1023-1030: datetime, list and dict values become str(value)
Stringify(m) ==
    [k \in DOMAIN m |->
        IF m[k][1] \in {"datetime", "list", "dict"} THEN StrOf(m[k]) ELSE m[k]]

\* lines 996-1030 for one document: form is the shape of the metadata
\* argument, meta the mapping that goes with the document
ItemMetadata(doc_metadata, form, meta) ==
    LET given == IF form = "none" THEN << >> ELSE meta
    IN  Stringify(WithEmbeddingConfig(DropNone(DictMerge(doc_metadata, given))))

\* the metadata merged into item i: {**doc.metadata, **meta}
MergedMeta(r, chunks, i) ==
    IF r.meta = "list" THEN r.metas[i]
    ELSE IF r.meta = "dict" THEN r.metas[1]
    ELSE [hash |-> NoHash, file |-> chunks[i].file]

BuildItems(p, r, chunks) ==
    [i \in 1..Len(chunks) |->
        [id |-> <<p, i>>,
         hash |-> MergedMeta(r, chunks, i).hash,
         file |-> MergedMeta(r, chunks, i).file]]

\* the arguments of a direct call with one document of file p: metadata
\* is absent or the mapping process_file passes (file_id, name, hash)
DirectRequest(p, c, m, ow, ad) ==
    [docs |-> << [content |-> c, file |-> p] >>,
     meta |-> m,
     metas |-> IF m = "dict"
               THEN << [hash |-> calculate_sha256_string(c), file |-> p] >>
               ELSE <<>>,
     overwrite |-> ow, add |-> ad, split |-> TRUE,
     TEXT_SPLITTER |-> "character"]

\* a direct call (process_file, process_text, ...) with one document
Start(p) ==
    /\ pc[p] = "idle" /\ kind[p] = "save"
    /\ \E c \in SmallContents, m \in {"none", "dict"},
          ow \in BOOLEAN, ad \in BOOLEAN :
         req' = [req EXCEPT ![p] = DirectRequest(p, c, m, ow, ad)]
    /\ order' = [order EXCEPT ![p] = {q \in Procs : Ended(q)}]
    /\ pc' = [pc EXCEPT ![p] = "dupcheck"]
    /\ UNCHANGED <<store, sem, kind, backgroundVars, fn, items, batches, outcome, effects,
                   batchVars>>

\* values of config.TEXT_SPLITTER: the default "", the two strategies, an
\* unknown name, and None (ChunkParamUpdateForm.text_splitter is Optional
\* and update_rag_config stores it as it comes)
TextSplitters == {"", "character", "token", "semantic", "None"}

\* the documents of a call: document i has content cs[i]
DocsOf(cs) == [i \in 1..Len(cs) |-> [content |-> cs[i], file |-> i]]
DocContents == UNION {[1..n -> SmallContents] : n \in 0..MaxDocs}

\* the metadata argument: absent, one mapping, or a list of n mappings
MetaArgs ==
    {[meta |-> "none", metas |-> <<>>]}
    \cup {[meta |-> "dict",
           metas |-> << [hash |-> calculate_sha256_string(c), file |-> 1] >>] :
            c \in SmallContents}
    \cup {[meta |-> "list",
           metas |-> [i \in 1..n |-> [hash |-> NoHash, file |-> i]]] :
            n \in 0..(MaxDocs + 1)}

\* a call of save_docs_to_vector_db with any arguments and configuration
StartCall(p) ==
    /\ pc[p] = "idle" /\ kind[p] = "save"
    /\ \E cs \in DocContents, m \in MetaArgs, ts \in TextSplitters,
          ow \in BOOLEAN, ad \in BOOLEAN, sp \in BOOLEAN :
         req' = [req EXCEPT ![p] =
                    [docs |-> DocsOf(cs), meta |-> m.meta, metas |-> m.metas,
                     overwrite |-> ow, add |-> ad, split |-> sp,
                     TEXT_SPLITTER |-> ts]]
    /\ order' = [order EXCEPT ![p] = {q \in Procs : Ended(q)}]
    /\ pc' = [pc EXCEPT ![p] = "dupcheck"]
    /\ UNCHANGED <<store, sem, kind, backgroundVars, fn, items, batches, outcome, effects,
                   batchVars>>

\* a direct call that adds a long document to the collection
StartBulk(p) ==
    /\ pc[p] = "idle" /\ kind[p] = "save"
    /\ req' = [req EXCEPT ![p] = DirectRequest(p, "big", "none", FALSE, TRUE)]
    /\ order' = [order EXCEPT ![p] = {q \in Procs : Ended(q)}]
    /\ pc' = [pc EXCEPT ![p] = "dupcheck"]
    /\ UNCHANGED <<store, sem, kind, backgroundVars, fn, items, batches, outcome, effects,
                   batchVars>>

\* a direct call that replaces the collection by a long document
StartOverwrite(p) ==
    /\ pc[p] = "idle" /\ kind[p] = "save"
    /\ req' = [req EXCEPT ![p] = DirectRequest(p, "big", "none", TRUE, FALSE)]
    /\ order' = [order EXCEPT ![p] = {q \in Procs : Ended(q)}]
    /\ pc' = [pc EXCEPT ![p] = "dupcheck"]
    /\ UNCHANGED <<store, sem, kind, backgroundVars, fn, items, batches, outcome, effects,
                   batchVars>>

\* lines 920-935: the duplicate check of the single-mapping path
DupCheck(p) ==
    /\ pc[p] = "dupcheck"
    /\ IF req[p].meta = "dict"
       THEN /\ effects' = [effects EXCEPT ![p].queried = TRUE]
            /\ \/ EndSave(p, QUERY_ERROR)
               \/ IF QueryByHash(store, req[p].metas[1].hash) # {}
                  THEN EndSave(p, DUPLICATE_CONTENT)
                  ELSE /\ pc' = [pc EXCEPT ![p] = "split"]
                       /\ UNCHANGED outcome
       ELSE /\ pc' = [pc EXCEPT ![p] = "split"]
            /\ UNCHANGED <<outcome, effects>>
    /\ UNCHANGED <<store, sem, kind, backgroundVars, fn, order, req, items, batches,
                   batchVars>>

\* lines 937-957: the splitter class chosen for a TEXT_SPLITTER value;
\* "none" when the value is rejected
SplitterFor(text_splitter) ==
    IF text_splitter \in {"", "character"} THEN "RecursiveCharacterTextSplitter"
    ELSE IF text_splitter = "token" THEN "TokenTextSplitter"
    ELSE "none"

\* a length check that rejects only a metadata list that is too short
SplitAndMerge_ShortOnly(p) ==
    /\ pc[p] = "split"
    /\ LET r == req[p]
           splitter == IF r.split THEN SplitterFor(r.TEXT_SPLITTER) ELSE "none"
           chunks == IF r.split THEN SplitDocs(r.docs) ELSE r.docs
       IN  /\ effects' = [effects EXCEPT ![p].splitter = splitter]
           /\ IF r.split /\ splitter = "none"
              THEN EndSave(p, INVALID_SPLITTER) /\ UNCHANGED items
              ELSE IF Len(chunks) = 0
              THEN EndSave(p, EMPTY_CONTENT) /\ UNCHANGED items
              ELSE IF r.meta = "list" /\ Len(r.metas) < Len(chunks)
              THEN EndSave(p, METADATA_MISMATCH) /\ UNCHANGED items
              ELSE /\ items' = [items EXCEPT ![p] = BuildItems(p, r, chunks)]
                   /\ pc' = [pc EXCEPT ![p] = "hascoll"]
                   /\ UNCHANGED outcome
    /\ UNCHANGED <<store, sem, kind, backgroundVars, fn, order, req, batches, batchVars>>

\* lines 937-1030: splitter choice, split, empty check, metadata merge
SplitAndMerge(p) ==
    /\ pc[p] = "split"
    /\ LET r == req[p]
           splitter == IF r.split THEN SplitterFor(r.TEXT_SPLITTER) ELSE "none"
           chunks == IF r.split THEN SplitDocs(r.docs) ELSE r.docs
       IN  /\ effects' = [effects EXCEPT ![p].splitter = splitter]
           /\ IF r.split /\ splitter = "none"
              THEN EndSave(p, INVALID_SPLITTER) /\ UNCHANGED items
              ELSE IF Len(chunks) = 0
              THEN EndSave(p, EMPTY_CONTENT) /\ UNCHANGED items
              ELSE IF r.meta = "list" /\ Len(r.metas) # Len(chunks)
              THEN EndSave(p, METADATA_MISMATCH) /\ UNCHANGED items
              ELSE /\ items' = [items EXCEPT ![p] = BuildItems(p, r, chunks)]
                   /\ pc' = [pc EXCEPT ![p] = "hascoll"]
                   /\ UNCHANGED outcome
    /\ UNCHANGED <<store, sem, kind, backgroundVars, fn, order, req, batches, batchVars>>

\* lines 1033-1043
HasCollection_AlwaysAdd(p) ==
    /\ pc[p] = "hascoll"
    /\ IF store.exists /\ req[p].overwrite
       THEN pc' = [pc EXCEPT ![p] = "delete"] /\ UNCHANGED outcome
       ELSE pc' = [pc EXCEPT ![p] = "embed"] /\ UNCHANGED outcome
    /\ UNCHANGED <<store, sem, kind, backgroundVars, fn, order, req, items, batches,
                   effects, batchVars>>
HasCollection(p) ==
    /\ pc[p] = "hascoll"
    /\ IF store.exists /\ req[p].overwrite
       THEN pc' = [pc EXCEPT ![p] = "delete"] /\ UNCHANGED outcome
       ELSE IF store.exists /\ ~req[p].add
       THEN EndSave(p, "True")
       ELSE pc' = [pc EXCEPT ![p] = "embed"] /\ UNCHANGED outcome
    /\ UNCHANGED <<store, sem, kind, backgroundVars, fn, order, req, items, batches,
                   effects, batchVars>>

\* a call that goes on to the embeddings and keeps the collection
DeleteExisting_Keep(p) ==
    /\ pc[p] = "delete"
    /\ effects' = [effects EXCEPT ![p].deleted = TRUE]
    /\ pc' = [pc EXCEPT ![p] = "embed"]
    /\ UNCHANGED <<store, sem, kind, backgroundVars, fn, order, req, items, batches,
                   outcome, batchVars>>
\* line 1037
DeleteExisting(p) ==
    /\ pc[p] = "delete"
    /\ store' = DeleteCollection(store)
    /\ effects' = [effects EXCEPT ![p].deleted = TRUE]
    /\ pc' = [pc EXCEPT ![p] = "embed"]
    /\ UNCHANGED <<sem, kind, backgroundVars, fn, order, req, items, batches, outcome,
                   batchVars>>

\* lines 1046-1067: the embedding call returns the vectors or raises
Embed(p) ==
    /\ pc[p] = "embed"
    /\ effects' = [effects EXCEPT ![p].embedded = TRUE]
    /\ \/ pc' = [pc EXCEPT ![p] = "submit"] /\ UNCHANGED outcome
       \/ EndSave(p, EMBED_ERROR)
    /\ UNCHANGED <<store, sem, kind, backgroundVars, fn, order, req, items, batches,
                   batchVars>>

CeilDiv(n, d) == (n + d - 1) \div d

\* slices that reach one item into the next slice
Partition_Overlapping(n, batch_size) ==
    [k \in 1..CeilDiv(n, batch_size) |->
        [lo |-> (k - 1) * batch_size + 1,
         hi |-> Min(k * batch_size + 1, n),
         st |-> "queued"]]

\* line 1086: [items[i : i + batch_size] for i in range(0, len(items), batch_size)]
\* batch k is the slice lo..hi (1-based) of items; every batch starts queued
Partition(n, batch_size) ==
    [k \in 1..CeilDiv(n, batch_size) |->
        [lo |-> (k - 1) * batch_size + 1,
         hi |-> Min(k * batch_size, n),
         st |-> "queued"]]

\* lines 1082-1092: batch size, partition, submission of every batch
Submit(p) ==
    /\ pc[p] = "submit"
    /\ \E cpu \in CpuReadings, mem \in MemReadings :
         LET batch_size ==
                 get_dynamic_batch_size(cpu, mem, DefaultMaxSize, DefaultMinSize)
         IN  batches' = [batches EXCEPT ![p] = Partition(Len(items[p]), batch_size)]
    /\ pc' = [pc EXCEPT ![p] = "collect"]
    /\ UNCHANGED <<store, sem, kind, backgroundVars, fn, order, req, items, outcome, effects,
                   batchVars>>

\* the items of batch k
BatchItems(p, k) == {items[p][i] : i \in batches[p][k].lo..batches[p][k].hi}

BatchIds(p) == 1..Len(batches[p])
WithStatus(p, S) == {k \in BatchIds(p) : batches[p][k].st \in S}
\* max_workers = min(4, len(batches)) if batches else 1
MaxWorkers(p) == IF Len(batches[p]) > 0 THEN Min(PoolCap, Len(batches[p])) ELSE 1

\* a free worker thread of the pool of p takes the next work item
WorkerTake(p, k) ==
    /\ pc[p] \in {"collect", "shutdown"}
    /\ k \in WithStatus(p, {"queued"})
    /\ \A j \in WithStatus(p, {"queued"}) : k <= j
    /\ Cardinality(WithStatus(p, {"waiting", "running"})) < MaxWorkers(p)
    /\ batches' = [batches EXCEPT ![p][k].st = "waiting"]
    /\ UNCHANGED <<store, sem, kind, backgroundVars, fn, pc, order, req, items, outcome,
                   effects, batchVars>>

\* an insert that does not wait for a permit
CanAcquire_NoWait(s) == TRUE

\* _safe_insert: with CONCURRENT_INSERTION_SEMAPHORE (acquire)
CanAcquire(s) == s > 0

Acquire(p, k) ==
    /\ k \in WithStatus(p, {"waiting"})
    /\ CanAcquire(sem)
    /\ sem' = sem - 1
    /\ batches' = [batches EXCEPT ![p][k].st = "running"]
    /\ UNCHANGED <<store, kind, backgroundVars, fn, pc, order, req, items, outcome,
                   effects, batchVars>>

\* _safe_insert: VECTOR_DB_CLIENT.insert returns, the permit is released
InsertReturns(p, k) ==
    /\ k \in WithStatus(p, {"running"})
    /\ store' = InsertItems(store, BatchItems(p, k))
    /\ sem' = sem + 1
    /\ batches' = [batches EXCEPT ![p][k].st = "done"]
    /\ UNCHANGED <<kind, backgroundVars, fn, pc, order, req, items, outcome, effects,
                   batchVars>>

\* an insert that keeps its permit when the vector store raises
InsertRaises_KeepPermit(p, k) ==
    /\ k \in WithStatus(p, {"running"})
    /\ batches' = [batches EXCEPT ![p][k].st = "failed"]
    /\ UNCHANGED <<store, sem, kind, backgroundVars, fn, pc, order, req, items, outcome,
                   effects, batchVars>>

\* _safe_insert: VECTOR_DB_CLIENT.insert raises, the permit is released
InsertRaises(p, k) ==
    /\ k \in WithStatus(p, {"running"})
    /\ sem' = sem + 1
    /\ batches' = [batches EXCEPT ![p][k].st = "failed"]
    /\ UNCHANGED <<store, kind, backgroundVars, fn, pc, order, req, items, outcome,
                   effects, batchVars>>

\* _safe_insert: VECTOR_DB_CLIENT.insert never returns (no timeout is set
\* at lines 221-223): the worker thread stays in the call with its permit
InsertHangs(p, k) ==
    /\ k \in WithStatus(p, {"running"})
    /\ batches' = [batches EXCEPT ![p][k].st = "hung"]
    /\ UNCHANGED <<store, sem, kind, backgroundVars, fn, pc, order, req, items, outcome,
                   effects, batchVars>>

\* lines 1093-1094: as_completed / future.result() sees a failed future,
\* or has seen every future succeed; the with block is left
Collect(p) ==
    /\ pc[p] = "collect"
    /\ \/ WithStatus(p, {"failed"}) # {}
       \/ WithStatus(p, {"done"}) = BatchIds(p)
    /\ pc' = [pc EXCEPT ![p] = "shutdown"]
    /\ UNCHANGED <<store, sem, kind, backgroundVars, fn, order, saveVars, batchVars>>

\* an executor that is left without waiting for its worker threads
Shutdown_NoWait(p) ==
    /\ pc[p] = "shutdown"
    /\ EndSave(p, IF WithStatus(p, {"failed"}) # {} THEN INSERT_ERROR ELSE "True")
    /\ UNCHANGED <<store, sem, kind, backgroundVars, fn, order, req, items, batches,
                   effects, batchVars>>

\* executor.shutdown(wait=True) at the end of the with block, then
\* return True (line 1099) or re-raise (lines 1100-1102)
Shutdown(p) ==
    /\ pc[p] = "shutdown"
    /\ WithStatus(p, {"done", "failed"}) = BatchIds(p)
    /\ EndSave(p, IF WithStatus(p, {"failed"}) # {} THEN INSERT_ERROR ELSE "True")
    /\ UNCHANGED <<store, sem, kind, backgroundVars, fn, order, req, items, batches,
                   effects, batchVars>>

(* ------------------------- process_files_batch ------------------------ *)
\* BatchProcessFilesResult(file_id: str, status: str, error: Optional[str]):
\* the constructor raises when a required field is missing
RequiredFields == {"file_id", "status"}
ValidResult(fields) == RequiredFields \subseteq DOMAIN fields

Result(f, st, err) == [file_id |-> f, status |-> st, error |-> err]

FileSeqs == UNION {[1..n -> Contents] : n \in 0..MaxFiles}

Prepared(p) == {i \in 1..Len(results[p]) : results[p][i].status = "prepared"}

\* the request arrives: form_data.files (file i has id i)
BatchStart(p) ==
    /\ pc[p] = "idle" /\ kind[p] = "batch"
    /\ \E fs \in FileSeqs : files' = [files EXCEPT ![p] = fs]
    /\ fidx' = [fidx EXCEPT ![p] = 1]
    /\ order' = [order EXCEPT ![p] = {q \in Procs : Ended(q)}]
    /\ pc' = [pc EXCEPT ![p] = "b_file"]
    /\ UNCHANGED <<store, sem, kind, backgroundVars, fn, saveVars, results, errors, all_docs, bq,
                   resp>>

\* lines 2128-2134: the handler of the per-file try
FileFailed(p, msg) ==
    /\ errors' = [errors EXCEPT ![p] =
                    Append(@, Result(fidx[p], "failed", getErrorMsg(msg)))]
    /\ fidx' = [fidx EXCEPT ![p] = @ + 1]
    /\ pc' = [pc EXCEPT ![p] = "b_file"]

\* lines 2061-2066: content, hash, file store updates (which may raise)
PrepareFile(p) ==
    /\ pc[p] = "b_file"
    /\ fidx[p] <= Len(files[p])
    /\ \/ pc' = [pc EXCEPT ![p] = "b_query"] /\ UNCHANGED <<errors, fidx>>
       \/ \E msg \in {FILES_ERROR, NoArgs} : FileFailed(p, msg)
    /\ UNCHANGED <<store, sem, kind, backgroundVars, fn, order, saveVars, files, results,
                   all_docs, bq, resp>>

\* the duplicate branch without its `continue`: the file is reported as
\* skipped_duplicate and is still collected for the insertion call
CheckFile_NoContinue(p) ==
    /\ pc[p] = "b_query"
    /\ bq' = [bq EXCEPT ![p] = @ + 1]
    /\ LET f == fidx[p]
           content == files[p][f]
           hash == calculate_sha256_string(content)
           is_duplicate == QueryByHash(store, hash) # {}
           skipped == IF is_duplicate
                      THEN << Result(f, "skipped_duplicate", "None") >>
                      ELSE <<>>
       IN  /\ all_docs' = [all_docs EXCEPT ![p] =
                 Append(@, [content |-> content, file |-> f, hash |-> hash])]
           /\ results' = [results EXCEPT ![p] =
                 @ \o skipped \o << Result(f, "prepared", "None") >>]
           /\ fidx' = [fidx EXCEPT ![p] = @ + 1]
           /\ pc' = [pc EXCEPT ![p] = "b_file"]
    /\ UNCHANGED <<store, sem, kind, backgroundVars, fn, order, saveVars, files, errors, resp>>

\* a check whose exception reaches the handler of the file
CheckFile_QueryFails(p) ==
    /\ pc[p] = "b_query"
    /\ bq' = [bq EXCEPT ![p] = @ + 1]
    /\ LET f == fidx[p]
           content == files[p][f]
           hash == calculate_sha256_string(content)
       IN  \E queryRaises \in BOOLEAN :
             LET is_duplicate == ~queryRaises /\ QueryByHash(store, hash) # {}
             IN  IF queryRaises
                 THEN /\ FileFailed(p, QUERY_ERROR)
                      /\ UNCHANGED <<all_docs, results>>
                 ELSE IF is_duplicate
                 THEN /\ results' = [results EXCEPT ![p] =
                            Append(@, Result(f, "skipped_duplicate", "None"))]
                      /\ fidx' = [fidx EXCEPT ![p] = @ + 1]
                      /\ pc' = [pc EXCEPT ![p] = "b_file"]
                      /\ UNCHANGED <<all_docs, errors>>
                 ELSE \/ /\ all_docs' = [all_docs EXCEPT ![p] =
                               Append(@, [content |-> content, file |-> f,
                                          hash |-> hash])]
                         /\ results' = [results EXCEPT ![p] =
                               Append(@, Result(f, "prepared", "None"))]
                         /\ fidx' = [fidx EXCEPT ![p] = @ + 1]
                         /\ pc' = [pc EXCEPT ![p] = "b_file"]
                         /\ UNCHANGED errors
                      \/ /\ FileFailed(p, FILES_ERROR)
                         /\ UNCHANGED <<all_docs, results>>
    /\ UNCHANGED <<store, sem, kind, backgroundVars, fn, order, saveVars, files, resp>>
\* lines 2068-2126: duplicate lookup of the file, then skip or collect it
CheckFile(p) ==
    /\ pc[p] = "b_query"
    /\ bq' = [bq EXCEPT ![p] = @ + 1]
    /\ LET f == fidx[p]
           content == files[p][f]
           hash == calculate_sha256_string(content)
       IN  \E queryRaises \in BOOLEAN :
             LET is_duplicate == ~queryRaises /\ QueryByHash(store, hash) # {}
             IN  IF is_duplicate
                 THEN /\ results' = [results EXCEPT ![p] =
                            Append(@, Result(f, "skipped_duplicate", "None"))]
                      /\ fidx' = [fidx EXCEPT ![p] = @ + 1]
                      /\ pc' = [pc EXCEPT ![p] = "b_file"]
                      /\ UNCHANGED <<all_docs, errors>>
                 ELSE \/ /\ all_docs' = [all_docs EXCEPT ![p] =
                               Append(@, [content |-> content, file |-> f,
                                          hash |-> hash])]
                         /\ results' = [results EXCEPT ![p] =
                               Append(@, Result(f, "prepared", "None"))]
                         /\ fidx' = [fidx EXCEPT ![p] = @ + 1]
                         /\ pc' = [pc EXCEPT ![p] = "b_file"]
                         /\ UNCHANGED errors
                      \/ /\ FileFailed(p, FILES_ERROR)
                         /\ UNCHANGED <<all_docs, results>>
    /\ UNCHANGED <<store, sem, kind, backgroundVars, fn, order, saveVars, files, resp>>

\* lines 2136-2145: the shared insertion call, when there is a document
CallSave(p) ==
    /\ pc[p] = "b_file"
    /\ fidx[p] > Len(files[p])
    /\ all_docs[p] # <<>>
    /\ req' = [req EXCEPT ![p] =
                 [docs |-> [i \in 1..Len(all_docs[p]) |->
                              [content |-> all_docs[p][i].content,
                               file |-> all_docs[p][i].file]],
                  meta |-> "list",
                  metas |-> [i \in 1..Len(all_docs[p]) |->
                               [hash |-> all_docs[p][i].hash,
                                file |-> all_docs[p][i].file]],
                  overwrite |-> FALSE, add |-> TRUE, split |-> TRUE,
                  TEXT_SPLITTER |-> "character"]]
    /\ pc' = [pc EXCEPT ![p] = "dupcheck"]
    /\ UNCHANGED <<store, sem, kind, backgroundVars, fn, order, items, batches, outcome,
                   effects, batchVars>>

\* lines 2136, 2167-2173: nothing to insert, the response is returned
ReturnEmpty(p) ==
    /\ pc[p] = "b_file"
    /\ fidx[p] > Len(files[p])
    /\ all_docs[p] = <<>>
    /\ resp' = [resp EXCEPT ![p] = "returned"]
    /\ pc' = [pc EXCEPT ![p] = "b_done"]
    /\ UNCHANGED <<store, sem, kind, backgroundVars, fn, order, saveVars, files, fidx, results,
                   errors, all_docs, bq>>

\* the completion loop without its status test: every result is completed
MarkCompleted_AnyStatus(p) ==
    /\ pc[p] = "b_complete"
    /\ results' = [results EXCEPT ![p] =
          [i \in 1..Len(@) |-> [@[i] EXCEPT !.status = "completed"]]]
    /\ resp' = [resp EXCEPT ![p] = "returned"]
    /\ pc' = [pc EXCEPT ![p] = "b_done"]
    /\ UNCHANGED <<store, sem, kind, backgroundVars, fn, order, saveVars, files, fidx, errors,
                   all_docs, bq>>

\* lines 2147-2152, 2167-2173: the insertion call returned; every prepared
\* result is completed unless the file store raises at result `stop`
MarkCompleted(p) ==
    /\ pc[p] = "b_complete"
    /\ \E stop \in Prepared(p) \cup {0} :
         /\ results' = [results EXCEPT ![p] =
               [i \in 1..Len(@) |->
                  IF @[i].status = "prepared" /\ (stop = 0 \/ i < stop)
                  THEN [@[i] EXCEPT !.status = "completed"]
                  ELSE @[i]]]
         /\ IF stop = 0
            THEN /\ resp' = [resp EXCEPT ![p] = "returned"]
                 /\ pc' = [pc EXCEPT ![p] = "b_done"]
            ELSE /\ pc' = [pc EXCEPT ![p] = "b_fail"]
                 /\ UNCHANGED resp
    /\ UNCHANGED <<store, sem, kind, backgroundVars, fn, order, saveVars, files, fidx, errors,
                   all_docs, bq>>

\* the exception caught at line 2154: the one the insertion call raised,
\* or the file store's when the insertion call had returned
CaughtError(p) == IF outcome[p] = "True" THEN FILES_ERROR ELSE outcome[p]

\* the entry built at lines 2162-2164
FailedEntry(f, msg) == [file_id |-> f, error |-> getErrorMsg(msg)]

\* lines 2154-2165: every prepared result becomes failed and gets an entry
\* in errors; the loop stops at the first entry that cannot be built
MarkFailed(p) ==
    /\ pc[p] = "b_fail"
    /\ LET first == IF Prepared(p) = {} THEN 0
                    ELSE CHOOSE i \in Prepared(p) : \A j \in Prepared(p) : i <= j
           entry(i) == FailedEntry(results[p][i].file_id, CaughtError(p))
           raises == first # 0 /\ ~ValidResult(entry(first))
       IN  /\ results' = [results EXCEPT ![p] =
                 [i \in 1..Len(@) |->
                    IF @[i].status = "prepared" /\ (~raises \/ i = first)
                    THEN [@[i] EXCEPT !.status = "failed"]
                    ELSE @[i]]]
           /\ IF raises
              THEN /\ resp' = [resp EXCEPT ![p] = "raised"]
                   /\ pc' = [pc EXCEPT ![p] = "b_raised"]
                   /\ UNCHANGED errors
              ELSE /\ errors' = [errors EXCEPT ![p] =
                         @ \o [n \in 1..Cardinality(Prepared(p)) |->
                                 entry(CHOOSE i \in Prepared(p) :
                                    Cardinality({j \in Prepared(p) : j < i}) = n - 1)]]
                   /\ resp' = [resp EXCEPT ![p] = "returned"]
                   /\ pc' = [pc EXCEPT ![p] = "b_done"]
    /\ UNCHANGED <<store, sem, kind, backgroundVars, fn, order, saveVars, files, fidx, all_docs,
                   bq>>

(* ------------------------------ tasks.py ------------------------------ *)
\* the variables of the retrieval router, which tasks.py leaves alone
requestVars == <<store, sem, kind, fn, pc, order, saveVars, batchVars>>

\* the ids uuid4 can produce: one more than the tasks created
TaskIds == 1..(MaxTasks + 1)
\* tasks: Dict[str, asyncio.Task] = {}
NoTasks == [task_id \in {} |-> 0]
\* an asyncio task that has not ended: running, or cancellation requested
Unfinished == {"pending", "cancelling"}

\* tasks.pop(task_id, None)
Pop(registry, task_id) ==
    [i \in DOMAIN registry \ {task_id} |-> registry[i]]
\* a cleanup that empties the registry
cleanup_task_All(registry, task_id) == NoTasks
\* cleanup_task(task_id): remove the task if it exists
cleanup_task(registry, task_id) == Pop(registry, task_id)

\* create_task(coroutine): a fresh id, a new task with its done callback
\* (the closure keeps task_id), registered before the function returns
create_task ==
    /\ Len(task_state) < MaxTasks
    /\ \E task_id \in TaskIds \ issued :
         LET task == Len(task_state) + 1
         IN  /\ issued' = issued \cup {task_id}
             /\ task_state' = Append(task_state,
                    [status |-> "pending", task_id |-> task_id])
             /\ tasks' = [i \in DOMAIN tasks \cup {task_id} |->
                             IF i = task_id THEN task ELSE tasks[i]]
    /\ UNCHANGED <<callbacks, stops, requestVars, cleanupVars>>

\* the coroutine of task t ends: it returns, raises, or (after cancel())
\* lets CancelledError through; the loop schedules its done callbacks
TaskEnds(t) ==
    /\ t \in 1..Len(task_state)
    /\ task_state[t].status \in Unfinished
    /\ \E how \in {"finished", "exception", "cancelled"} :
         /\ how = "cancelled" => task_state[t].status = "cancelling"
         /\ task_state' = [task_state EXCEPT ![t].status = how]
    /\ callbacks' = callbacks \cup {t}
    /\ UNCHANGED <<tasks, issued, stops, requestVars, cleanupVars>>

\* the event loop runs the done callback of t: cleanup_task(task_id)
DoneCallback(t) ==
    /\ t \in callbacks
    /\ tasks' = cleanup_task(tasks, task_state[t].task_id)
    /\ callbacks' = callbacks \ {t}
    /\ UNCHANGED <<task_state, issued, stops, requestVars, cleanupVars>>

\* what stop_task does once `await task` is over, by how the task ended
AfterAwait(registry, task_id, status) ==
    CASE status = "cancelled" ->
             [tasks |-> Pop(registry, task_id), result |-> "stopped"]
      [] status = "finished" ->
             [tasks |-> registry, result |-> "not stopped"]
      [] OTHER ->
             [tasks |-> registry, result |-> "raised"]

\* stop_task(task_id) up to its await: ValueError for an id that is not
\* registered; otherwise cancel() and await. A task that is already done
\* is awaited without suspending
stop_task ==
    /\ Len(stops) < MaxStops
    /\ \E task_id \in TaskIds :
         IF task_id \notin DOMAIN tasks
         THEN /\ stops' = Append(stops, [task_id |-> task_id, task |-> 0,
                                          result |-> "ValueError"])
              /\ UNCHANGED <<tasks, task_state>>
         ELSE LET task == tasks[task_id]
                  status == task_state[task].status
              IN  IF status \in Unfinished
                  THEN /\ task_state' =
                              [task_state EXCEPT ![task].status = "cancelling"]
                       /\ stops' = Append(stops, [task_id |-> task_id,
                                          task |-> task, result |-> "awaiting"])
                       /\ UNCHANGED tasks
                  ELSE LET after == AfterAwait(tasks, task_id, status)
                       IN  /\ tasks' = after.tasks
                           /\ stops' = Append(stops, [task_id |-> task_id,
                                      task |-> task, result |-> after.result])
                           /\ UNCHANGED task_state
    /\ UNCHANGED <<callbacks, issued, requestVars, cleanupVars>>

\* stop_task resumes from `await task`: the task is done and its done
\* callbacks, added before the waiter, have run
StopResumes(i) ==
    /\ i \in 1..Len(stops)
    /\ stops[i].result = "awaiting"
    /\ task_state[stops[i].task].status \notin Unfinished
    /\ stops[i].task \notin callbacks
    /\ LET after == AfterAwait(tasks, stops[i].task_id,
                               task_state[stops[i].task].status)
       IN  /\ tasks' = after.tasks
           /\ stops' = [stops EXCEPT ![i].result = after.result]
    /\ UNCHANGED <<task_state, callbacks, issued, requestVars, cleanupVars>>

\* no task was created, no cleanup cycle runs
NoCycle == [pc |-> "asleep", start |-> 0, cutoff |-> 0, knowledge |-> << >>,
            knowledge_file_ids |-> {}, todo |-> {}, file |-> 0,
            vector_failed |-> FALSE, raised |-> FALSE]
NoBackground ==
    /\ tasks = NoTasks
    /\ task_state = << >>
    /\ callbacks = {}
    /\ issued = {}
    /\ stops = << >>
    /\ now = 0
    /\ file_rows = {}
    /\ knowledge_rows = << >>
    /\ vectors = {}
    /\ cycle = NoCycle

(* ------------------------------ systems ------------------------------- *)
\* the collection before the requests: absent, empty, or holding the item
\* of an earlier ingestion of content "a"
Stores ==
    { [exists |-> FALSE, items |-> {}],
      [exists |-> TRUE, items |-> {}],
      [exists |-> TRUE,
       items |-> {[id |-> <<0, 1>>, hash |-> calculate_sha256_string("a"),
                   file |-> 0]}] }

\* no request has arrived yet; the collection is st
Quiescent(st, kinds) ==
    /\ store = st
    /\ sem = SemaphoreValue
    /\ kind = kinds
    /\ pc = [p \in Procs |-> "idle"]
    /\ order = [p \in Procs |-> {}]
    /\ req = [p \in Procs |-> NoReq]
    /\ items = [p \in Procs |-> <<>>]
    /\ batches = [p \in Procs |-> <<>>]
    /\ outcome = [p \in Procs |-> "none"]
    /\ effects = [p \in Procs |-> NoEffects]
    /\ files = [p \in Procs |-> <<>>]
    /\ fidx = [p \in Procs |-> 0]
    /\ results = [p \in Procs |-> <<>>]
    /\ errors = [p \in Procs |-> <<>>]
    /\ all_docs = [p \in Procs |-> <<>>]
    /\ bq = [p \in Procs |-> 0]
    /\ resp = [p \in Procs |-> "none"]

InitWith(kinds) ==
    /\ \E st \in Stores : Quiescent(st, kinds)
    /\ fn = NoCall
    /\ NoBackground

\* concurrent direct calls of save_docs_to_vector_db
Init == InitWith([p \in Procs |-> "save"])

SaveSteps(p) ==
    \/ DupCheck(p)
    \/ SplitAndMerge(p)
    \/ HasCollection(p)
    \/ DeleteExisting(p)
    \/ Embed(p)
    \/ Submit(p)
    \/ \E k \in BatchIds(p) : WorkerTake(p, k)
    \/ \E k \in BatchIds(p) : Acquire(p, k)
    \/ \E k \in BatchIds(p) : InsertReturns(p, k)
    \/ \E k \in BatchIds(p) : InsertRaises(p, k)
    \/ Collect(p)
    \/ Shutdown(p)

Next == \E p \in Procs : Start(p) \/ SaveSteps(p)

Spec == Init /\ [][Next]_vars

\* concurrent direct calls that each write several batches
PoolSteps(p) ==
    \/ StartBulk(p)
    \/ DupCheck(p)
    \/ SplitAndMerge(p)
    \/ HasCollection(p)
    \/ Embed(p)
    \/ Submit(p)
    \/ \E k \in BatchIds(p) : WorkerTake(p, k)
    \/ \E k \in BatchIds(p) : Acquire(p, k)
    \/ \E k \in BatchIds(p) : InsertReturns(p, k)
    \/ \E k \in BatchIds(p) : InsertRaises(p, k)
    \/ Collect(p)
    \/ Shutdown(p)

PoolNext == \E p \in Procs : PoolSteps(p)

PoolSpec == Init /\ [][PoolNext]_vars

\* the same calls when every insert returns or raises and the threads of
\* every call keep being scheduled
FairPoolSpec ==
    Init /\ [][PoolNext]_vars /\ \A p \in Procs : WF_vars(PoolSteps(p))

\* the same calls with a vector store whose insert may never return; the
\* threads of every call keep being scheduled
HangNext == \E p \in Procs : PoolSteps(p) \/ \E k \in BatchIds(p) : InsertHangs(p, k)

HangSpec == Init /\ [][HangNext]_vars /\ \A p \in Procs : WF_vars(PoolSteps(p))

\* one request: a process_files_batch call or a direct call
RequestInit ==
    \E k \in {"save", "batch"} : InitWith([p \in Procs |-> IF p = 1 THEN k ELSE "save"])

BatchSteps(p) ==
    \/ BatchStart(p)
    \/ PrepareFile(p)
    \/ CheckFile(p)
    \/ CallSave(p)
    \/ ReturnEmpty(p)
    \/ MarkCompleted(p)
    \/ MarkFailed(p)

RequestNext == Start(1) \/ BatchSteps(1) \/ SaveSteps(1)

RequestSpec == RequestInit /\ [][RequestNext]_vars

\* one call of save_docs_to_vector_db with any arguments
CallNext == StartCall(1) \/ SaveSteps(1)

CallSpec == Init /\ [][CallNext]_vars

\* one call that overwrites the collection with several batches
OverwriteNext == StartOverwrite(1) \/ SaveSteps(1)

OverwriteSpec == Init /\ [][OverwriteNext]_vars

\* the metadata of one item computed on its own, from the metadata of a
\* document and the metadata argument (none, one mapping, or the entry of
\* a list that goes with the document)
MetaKeys == {"name", "embedding_config"}
Mappings == UNION {[S -> MetaValues] : S \in SUBSET MetaKeys}
MetadataCalls ==
    {c \in [doc_metadata : Mappings, form : {"none", "dict", "list"},
            meta : Mappings] :
        c.form = "none" => c.meta = << >>}

MetadataInit ==
    /\ Quiescent([exists |-> FALSE, items |-> {}], [p \in Procs |-> "save"])
    /\ NoBackground
    /\ \E c \in MetadataCalls :
         fn = [op |-> "metadata", args |-> c, returned |-> FALSE, ret |-> << >>]

MergeMetadata ==
    /\ fn.op = "metadata" /\ ~fn.returned
    /\ fn' = [fn EXCEPT !.returned = TRUE,
                        !.ret = ItemMetadata(fn.args.doc_metadata, fn.args.form,
                                             fn.args.meta)]
    /\ UNCHANGED <<store, sem, kind, backgroundVars, pc, order, saveVars, batchVars>>

MetadataNext == MergeMetadata

MetadataSpec == MetadataInit /\ [][MetadataNext]_vars

\* the vector store on its own: inserts of new items into the collection
\* and queries by file_id; item i belongs to file 1 or 2, no item to file 3
StoreItems ==
    {[id |-> <<0, i>>, hash |-> NoHash, file |-> ((i - 1) % 2) + 1] :
        i \in 1..MaxStoreItems}
QueriedFiles == {1, 2, 3}

\* fn.inserted: the items inserted so far; fn.at: those inserted when the
\* last query was made
GatewayInit ==
    /\ Quiescent([exists |-> FALSE, items |-> {}], [p \in Procs |-> "save"])
    /\ NoBackground
    /\ fn = [op |-> "gateway", inserted |-> {}, queried |-> FALSE,
             file_id |-> 0, at |-> {}, ret |-> [ids |-> << >>]]

\* vector_client.insert(collection_name, items)
GatewayInsert ==
    /\ fn.op = "gateway"
    /\ \E its \in (SUBSET (StoreItems \ fn.inserted)) \ {{}} :
         /\ store' = InsertItems(store, its)
         /\ fn' = [fn EXCEPT !.inserted = @ \cup its]
    /\ UNCHANGED <<sem, kind, backgroundVars, pc, order, saveVars, batchVars>>

\* vector_client.query(collection_name, filter={"file_id": file_id})
GatewayQuery ==
    /\ fn.op = "gateway"
    /\ \E file_id \in QueriedFiles :
         fn' = [fn EXCEPT !.queried = TRUE, !.file_id = file_id,
                          !.at = fn.inserted,
                          !.ret = QueryByFileId(store, file_id)]
    /\ UNCHANGED <<store, sem, kind, backgroundVars, pc, order, saveVars, batchVars>>

GatewayNext == GatewayInsert \/ GatewayQuery

GatewaySpec == GatewayInit /\ [][GatewayNext]_vars

(* lines 961-989: the page header of a chunk.  A text is a sequence of
   tokens: "h3" and "h6" are the lines "# [Page 3]:" and "# [Page 6]:",
   "n" is a newline (white space), "x" is any other character *)
\* str.strip(): leading and trailing white space removed
RECURSIVE StripLeft(_)
StripLeft(text) ==
    IF text # << >> /\ Head(text) = "n" THEN StripLeft(Tail(text)) ELSE text
RECURSIVE StripRight(_)
StripRight(text) ==
    IF text # << >> /\ text[Len(text)] = "n"
    THEN StripRight(SubSeq(text, 1, Len(text) - 1))
    ELSE text
Strip(text) == StripRight(StripLeft(text))

\* str.startswith
StartsWith(text, prefix) ==
    Len(text) >= Len(prefix) /\ SubSeq(text, 1, Len(prefix)) = prefix

\* metadata['page_number'] + 1 and metadata['page'] + 1, as printed
NextPage(n) == IF n = "2" THEN "3" ELSE "6"
\* f"# [Page {label}]:\n\n"
HeaderOf(label) == <<IF label = "3" THEN "h3" ELSE "h6", "n", "n">>

\* lines 964-970; "" is a page_label that is empty or absent, "None" a
\* page_number or page that is absent
PageHeader(metadata) ==
    IF metadata.page_label # "" THEN HeaderOf(metadata.page_label)
    ELSE IF metadata.page_number # "None"
         THEN HeaderOf(NextPage(metadata.page_number))
    ELSE IF metadata.page # "None" THEN HeaderOf(NextPage(metadata.page))
    ELSE << >>

\* a chunk that gets the header prepended without looking at its text
ChunkText_AlwaysPrepend(header, page_content) == header \o Strip(page_content)

\* lines 975-983: the text stored for a chunk of the splitter
ChunkText(header, page_content) ==
    LET content == Strip(page_content)
        stripped == IF header # << >> /\ StartsWith(content, header)
                    THEN Strip(SubSeq(content, Len(header) + 1, Len(content)))
                    ELSE content
    IN  IF header # << >> THEN header \o stripped ELSE stripped

(* utils/collections.py: strings are sequences of characters *)
\* str.lower() on the characters used here
Lower(c) == IF c = "A" THEN "a" ELSE c
\* the characters the pattern [^a-z0-9] does not match
IsSlugChar(c) == c \in {"a", "1", "2"}

\* re.sub(r"[^a-z0-9]+", "-", value): every maximal run of other
\* characters becomes one hyphen
RECURSIVE SubRuns(_, _)
SubRuns(value, inRun) ==
    IF value = << >> THEN << >>
    ELSE IF IsSlugChar(Head(value))
         THEN <<Head(value)>> \o SubRuns(Tail(value), FALSE)
         ELSE (IF inRun THEN << >> ELSE <<"-">>) \o SubRuns(Tail(value), TRUE)

\* str.strip("-")
RECURSIVE LStrip(_)
LStrip(value) ==
    IF value # << >> /\ Head(value) = "-" THEN LStrip(Tail(value)) ELSE value
RECURSIVE RStrip(_)
RStrip(value) ==
    IF value # << >> /\ value[Len(value)] = "-"
    THEN RStrip(SubSeq(value, 1, Len(value) - 1))
    ELSE value

slugify(value) ==
    RStrip(LStrip(SubRuns([i \in 1..Len(value) |-> Lower(value[i])], FALSE)))

\* f"user-{user_id}"
build_user_collection_name(user_id) == <<"u", "s", "e", "r", "-">> \o user_id

\* a name built from the slug alone
build_kb_collection_name_NoId(kb_name, kb_id) ==
    <<"k", "b", "-">> \o slugify(kb_name)

\* f"kb-{slug}-{kb_id}"
build_kb_collection_name(kb_name, kb_id) ==
    <<"k", "b", "-">> \o slugify(kb_name) \o <<"-">> \o kb_id

\* the header step on its own: the metadata of a document and the text of
\* one chunk the splitter produced for it
PageMetadata ==
    [page_label : {"", "3"}, page_number : {"None", "2"}, page : {"None", "5"}]
ChunkTexts == UNION {[1..n -> {"h3", "n", "x"}] : n \in 0..MaxTextLen}

HeaderInit ==
    /\ Quiescent([exists |-> FALSE, items |-> {}], [p \in Procs |-> "save"])
    /\ NoBackground
    /\ \E m \in PageMetadata, t \in ChunkTexts :
         fn = [op |-> "header", args |-> [metadata |-> m, page_content |-> t],
               returned |-> FALSE, ret |-> << >>]

PrependHeader ==
    /\ fn.op = "header" /\ ~fn.returned
    /\ fn' = [fn EXCEPT !.returned = TRUE,
                        !.ret = ChunkText(PageHeader(fn.args.metadata),
                                          fn.args.page_content)]
    /\ UNCHANGED <<store, sem, kind, backgroundVars, pc, order, saveVars, batchVars>>

HeaderNext == PrependHeader

HeaderSpec == HeaderInit /\ [][HeaderNext]_vars

\* the names of two owners computed on their own: knowledge bases
\* (name1, id1) and (name2, id2), users id1 and id2
SeqsUpTo(S, lo, hi) == UNION {[1..n -> S] : n \in lo..hi}
KbNames == SeqsUpTo({"A", " ", "1"}, 0, MaxNameLen)
OwnerIds == SeqsUpTo({"1", "-"}, 1, MaxIdLen)

NamesInit ==
    /\ Quiescent([exists |-> FALSE, items |-> {}], [p \in Procs |-> "save"])
    /\ NoBackground
    /\ \E n1 \in KbNames, n2 \in KbNames, i1 \in OwnerIds, i2 \in OwnerIds :
         fn = [op |-> "names",
               args |-> [name1 |-> n1, id1 |-> i1, name2 |-> n2, id2 |-> i2],
               returned |-> FALSE,
               ret |-> [user1 |-> << >>, user2 |-> << >>,
                        kb1 |-> << >>, kb2 |-> << >>]]

BuildNames ==
    /\ fn.op = "names" /\ ~fn.returned
    /\ fn' = [fn EXCEPT
                !.returned = TRUE,
                !.ret = [user1 |-> build_user_collection_name(fn.args.id1),
                         user2 |-> build_user_collection_name(fn.args.id2),
                         kb1 |-> build_kb_collection_name(fn.args.name1, fn.args.id1),
                         kb2 |-> build_kb_collection_name(fn.args.name2, fn.args.id2)]]
    /\ UNCHANGED <<store, sem, kind, backgroundVars, pc, order, saveVars, batchVars>>

NamesNext == BuildNames

NamesSpec == NamesInit /\ [][NamesNext]_vars

\* get_dynamic_batch_size called on its own: the two psutil readings and
\* the arguments max_size >= min_size >= 1
SizeArgs == (1..MaxSizeArg) \cup {DefaultMinSize, DefaultMaxSize}
SizerCalls ==
    {c \in [cpu_percent : CpuReadings, available_mem_mb : MemReadings,
            max_size : SizeArgs, min_size : SizeArgs] :
        c.max_size >= c.min_size}

SizerInit ==
    /\ Quiescent([exists |-> FALSE, items |-> {}], [p \in Procs |-> "save"])
    /\ NoBackground
    /\ \E c \in SizerCalls :
         fn = [op |-> "get_dynamic_batch_size", args |-> c,
               returned |-> FALSE, ret |-> 0]

CallSizer ==
    /\ fn.op = "get_dynamic_batch_size" /\ ~fn.returned
    /\ fn' = [fn EXCEPT !.returned = TRUE,
                        !.ret = get_dynamic_batch_size(
                                    fn.args.cpu_percent, fn.args.available_mem_mb,
                                    fn.args.max_size, fn.args.min_size)]
    /\ UNCHANGED <<store, sem, kind, backgroundVars, pc, order, saveVars, batchVars>>

SizerNext == CallSizer

SizerSpec == SizerInit /\ [][SizerNext]_vars

\* the task registry on one event loop: tasks are created, end, have
\* their done callbacks run, and are stopped through stop_task
TasksInit ==
    /\ Quiescent([exists |-> FALSE, items |-> {}], [p \in Procs |-> "save"])
    /\ fn = NoCall
    /\ NoBackground

TasksNext ==
    \/ create_task
    \/ \E t \in 1..MaxTasks : TaskEnds(t)
    \/ \E t \in 1..MaxTasks : DoneCallback(t)
    \/ stop_task
    \/ \E i \in 1..MaxStops : StopResumes(i)

\* the event loop runs every callback it has scheduled
TasksSpec ==
    /\ TasksInit
    /\ [][TasksNext]_vars
    /\ \A t \in 1..MaxTasks : WF_vars(DoneCallback(t))

(* ------------------------ periodic_file_cleanup ----------------------- *)
\* ids of the rows of the files table, their owners, their created_at
RecordIds == 1..MaxRecords
UserIds == {<<"1">>, <<"2">>}
CreatedAts == 0..2
\* knowledge.data: None, or a mapping with file_ids
NoData == [none |-> TRUE]
KnowledgeData ==
    {NoData} \cup {[file_ids |-> S] : S \in {{}} \cup {{f} : f \in RecordIds}}

\* f"user-{file.user_id}"
UserCollection(user_id) == <<"u", "s", "e", "r", "-">> \o user_id

\* the ids of the first knowledge base only
KnowledgeFileIds_First(rows) ==
    IF rows # << >> /\ rows[1] # NoData THEN rows[1].file_ids ELSE {}
\* {fid for knowledge in ... for fid in (knowledge.data or {}).get("file_ids", [])}
KnowledgeFileIds(rows) ==
    UNION {rows[k].file_ids : k \in {j \in 1..Len(rows) : rows[j] # NoData}}

\* a condition that also takes a file created exactly at the cutoff
Expired_Inclusive(file, cutoff, knowledge_file_ids) ==
    /\ file.created_at # 0
    /\ file.created_at <= cutoff
    /\ file.id \notin knowledge_file_ids
\* the condition of the loop body, with created_at 0 falsy
Expired(file, cutoff, knowledge_file_ids) ==
    /\ file.created_at # 0
    /\ file.created_at < cutoff
    /\ file.id \notin knowledge_file_ids

\* Files.get_files(): the rows, here by ascending id
RowWithId(rows, id) == CHOOSE row \in rows : row.id = id
MinId(rows) == CHOOSE id \in {row.id : row \in rows} :
                   \A row \in rows : id <= row.id
\* VECTOR_DB_CLIENT.delete(collection_name, filter={"file_id": id})
VectorDelete(vs, collection_name, file_id) ==
    {v \in vs : ~(v.collection = collection_name /\ v.file_id = file_id)}
\* Files.delete_file_by_id(id)
DeleteFileById(rows, id) == {row \in rows : row.id # id}

\* the exception handler of the cycle: log, then sleep
CycleRaised == [cycle EXCEPT !.pc = "asleep", !.raised = TRUE]

\* asyncio.sleep is over: the next cycle begins and computes cutoff
StartCycle ==
    /\ cycle.pc = "asleep"
    /\ cycle' = [NoCycle EXCEPT !.pc = "knowledge", !.start = now,
                                !.cutoff = now - DAY]
    /\ UNCHANGED <<now, file_rows, knowledge_rows, vectors, requestVars,
                   taskVars>>

\* Knowledges.get_knowledge_bases() returns the rows, or raises
ReadKnowledge ==
    /\ cycle.pc = "knowledge"
    /\ \/ cycle' = [cycle EXCEPT !.pc = "files",
                      !.knowledge = knowledge_rows,
                      !.knowledge_file_ids = KnowledgeFileIds(knowledge_rows)]
       \/ cycle' = CycleRaised
    /\ UNCHANGED <<now, file_rows, knowledge_rows, vectors, requestVars,
                   taskVars>>

\* Files.get_files() returns the rows, or raises
ReadFiles ==
    /\ cycle.pc = "files"
    /\ \/ cycle' = [cycle EXCEPT !.pc = "loop", !.todo = file_rows]
       \/ cycle' = CycleRaised
    /\ UNCHANGED <<now, file_rows, knowledge_rows, vectors, requestVars,
                   taskVars>>

\* one turn of the for loop up to the vector delete; the cycle sleeps
\* when the list is exhausted
Examine ==
    /\ cycle.pc = "loop"
    /\ IF cycle.todo = {}
       THEN cycle' = [cycle EXCEPT !.pc = "asleep"]
       ELSE LET file == RowWithId(cycle.todo, MinId(cycle.todo))
                rest == cycle.todo \ {file}
            IN  IF Expired(file, cycle.cutoff, cycle.knowledge_file_ids)
                THEN cycle' = [cycle EXCEPT !.pc = "vector", !.todo = rest,
                                        !.file = file,
                                        !.vector_failed = FALSE]
                ELSE cycle' = [cycle EXCEPT !.todo = rest]
    /\ UNCHANGED <<now, file_rows, knowledge_rows, vectors, requestVars,
                   taskVars>>

\* the vector delete of the file, whose exception is logged and dropped
DeleteVectors ==
    /\ cycle.pc = "vector"
    /\ \/ /\ vectors' = VectorDelete(vectors,
                            UserCollection(cycle.file.user_id), cycle.file.id)
          /\ cycle' = [cycle EXCEPT !.pc = "record"]
       \/ /\ cycle' = [cycle EXCEPT !.pc = "record", !.vector_failed = TRUE]
          /\ UNCHANGED vectors
    /\ UNCHANGED <<now, file_rows, knowledge_rows, requestVars, taskVars>>

\* Files.delete_file_by_id: the row is deleted, or the call returns False,
\* or it raises
DeleteRecord ==
    /\ cycle.pc = "record"
    /\ \/ /\ file_rows' = DeleteFileById(file_rows, cycle.file.id)
          /\ cycle' = [cycle EXCEPT !.pc = "loop"]
       \/ /\ cycle' = [cycle EXCEPT !.pc = "loop"]
          /\ UNCHANGED file_rows
       \/ /\ cycle' = CycleRaised
          /\ UNCHANGED file_rows
    /\ UNCHANGED <<now, knowledge_rows, vectors, requestVars, taskVars>>

\* time passes
Tick ==
    /\ now < DAY + MaxClock
    /\ now' = now + 1
    /\ UNCHANGED <<file_rows, knowledge_rows, vectors, cycle, requestVars,
                   taskVars>>

\* another request adds a file to a knowledge base
LinkFile ==
    /\ \E k \in 1..Len(knowledge_rows), f \in RecordIds :
         /\ knowledge_rows[k] # NoData
         /\ f \notin knowledge_rows[k].file_ids
         /\ knowledge_rows' = [knowledge_rows EXCEPT
                ![k].file_ids = knowledge_rows[k].file_ids \cup {f}]
    /\ UNCHANGED <<now, file_rows, vectors, cycle, requestVars, taskVars>>

\* the tables when the cleanup task is started: every file has a vector
\* in the user collection of its owner
CleanupInit ==
    /\ Quiescent([exists |-> FALSE, items |-> {}], [p \in Procs |-> "save"])
    /\ fn = NoCall
    /\ tasks = NoTasks /\ task_state = << >> /\ callbacks = {}
    /\ issued = {} /\ stops = << >>
    /\ now = DAY + 1
    /\ \E owner \in [RecordIds -> UserIds], created \in [RecordIds -> CreatedAts] :
         /\ file_rows = {[id |-> f, user_id |-> owner[f],
                          created_at |-> created[f]] : f \in RecordIds}
         /\ vectors = {[collection |-> UserCollection(owner[f]),
                        file_id |-> f] : f \in RecordIds}
    /\ knowledge_rows \in [1..MaxKnowledge -> KnowledgeData]
    /\ cycle = NoCycle

CycleSteps ==
    \/ StartCycle
    \/ ReadKnowledge
    \/ ReadFiles
    \/ Examine
    \/ DeleteVectors
    \/ DeleteRecord

CleanupNext == CycleSteps \/ Tick \/ LinkFile

\* the event loop keeps running the cleanup task
CleanupSpec == CleanupInit /\ [][CleanupNext]_vars /\ WF_vars(CycleSteps)

(* ------------------------------- claims ------------------------------- *)
Running == {pk \in Procs \X (1..BigChunks) :
              pk[2] \in BatchIds(pk[1]) /\ batches[pk[1]][pk[2]].st = "running"}
Waiting == {pk \in Procs \X (1..BigChunks) :
              pk[2] \in BatchIds(pk[1]) /\ batches[pk[1]][pk[2]].st = "waiting"}

\* C1: at every moment at most 5 inserts are in flight over all calls, and
\* every insert in flight holds one permit of the shared semaphore (the
\* permits taken are exactly the inserts in flight).
C1_InsertCap ==
    /\ Cardinality(Running) <= SemaphoreValue
    /\ sem = SemaphoreValue - Cardinality(Running)

\* five inserts in flight and a sixth batch blocked on the semaphore
C1_Witness == Cardinality(Running) = SemaphoreValue /\ Waiting # {}

FileIds(p) == 1..Len(files[p])
ResultsOf(p, f) == {i \in 1..Len(results[p]) : results[p][i].file_id = f}

\* C2: the returned response has one entry of results per input file:
\* len(results) = len(files) and every file id is in exactly one entry.
C2_ResultsCoverFiles ==
    resp[1] = "returned" =>
        /\ Len(results[1]) = Len(files[1])
        /\ \A f \in FileIds(1) : Cardinality(ResultsOf(1, f)) = 1

SaveRaised(p) == outcome[p] \notin {"none", "True"}
DocFiles(p) == {all_docs[p][i].file : i \in 1..Len(all_docs[p])}
ErrorsOf(p, f) == {i \in 1..Len(errors[p]) : errors[p][i].file_id = f}

\* C3: when the shared insertion call raised, process_files_batch returns a
\* response in which every prepared document is failed, with exactly one
\* entry of errors each, carrying status failed and the message of the
\* raised exception.
C3_SaveFailureReported ==
    (kind[1] = "batch" /\ Ended(1) /\ SaveRaised(1)) =>
        /\ resp[1] = "returned"
        /\ \A f \in DocFiles(1) :
             /\ \A i \in ResultsOf(1, f) : results[1][i].status = "failed"
             /\ Cardinality(ErrorsOf(1, f)) = 1
             /\ \A i \in ErrorsOf(1, f) :
                  /\ errors[1][i].status = "failed"
                  /\ errors[1][i].error = getErrorMsg(outcome[1])

Wrote(p) == WithStatus(p, {"done"}) # {}
Started(p) == pc[p] # "idle"
HashOf(p) == req[p].metas[1].hash
SameHashCalls(c1, c2) ==
    /\ c1 # c2 /\ kind[c1] = "save" /\ kind[c2] = "save"
    /\ Started(c1) /\ Started(c2)
    /\ req[c1].meta = "dict" /\ req[c2].meta = "dict"
    /\ HashOf(c1) = HashOf(c2)
ItemsOf(p) == {it \in store.items : it.id[1] = p}

\* the second call c2 started after the first call c1 had ended, c1 stored
\* items, and nothing deleted the collection afterwards
InSequence(c1, c2) ==
    /\ SameHashCalls(c1, c2)
    /\ c1 \in order[c2]
    /\ Wrote(c1)
    /\ \A c \in Procs \ {c1} : ~req[c].overwrite

C5_AtMostOneWrites ==
    \A c1, c2 \in Procs :
        (/\ SameHashCalls(c1, c2)
         /\ ~req[c1].overwrite /\ ~req[c2].overwrite
         /\ ~req[c1].add /\ ~req[c2].add)
        => ~(Wrote(c1) /\ Wrote(c2))

StatusOf(p, f) == {results[p][i].status : i \in ResultsOf(p, f)}
InitialItems == {it \in store.items : it.id[1] = 0}

\* C6: two files of one batch with the same non-empty content, whose hash
\* the collection did not hold: one ends completed, the other
\* skipped_duplicate, and the content is handed to the insertion call once.
C6_InBatchDuplicate ==
    \A f, g \in FileIds(1) :
        (/\ resp[1] = "returned" /\ f < g
         /\ files[1][f] = files[1][g] /\ files[1][f] # ""
         /\ \A it \in InitialItems : it.hash # calculate_sha256_string(files[1][f])
         /\ ResultsOf(1, f) # {} /\ ResultsOf(1, g) # {})
        => /\ StatusOf(1, f) \cup StatusOf(1, g) = {"completed", "skipped_duplicate"}
           /\ Cardinality({i \in 1..Len(all_docs[1]) :
                             all_docs[1][i].content = files[1][f]}) = 1

\* C7: a file with empty content gets status skipped_empty and contributes
\* no document to the insertion call.
C7_EmptySkipped ==
    \A f \in FileIds(1) :
        files[1][f] = "" =>
            /\ StatusOf(1, f) \subseteq {"skipped_empty"}
            /\ f \notin DocFiles(1)

\* C8: one process_files_batch call issues one duplicate-detection query
\* for the whole batch, whatever the number of files.
C8_SingleQuery == bq[1] <= 1

SkippedStatuses == {"skipped_duplicate", "skipped_empty"}

\* C9 (steps): a result enters results as skipped_duplicate, skipped_empty
\* or prepared; afterwards only a prepared result changes, and only to
\* completed or failed.
C9_Step ==
    /\ Len(results'[1]) >= Len(results[1])
    /\ \A i \in 1..Len(results[1]) :
         /\ results'[1][i].file_id = results[1][i].file_id
         /\ \/ results'[1][i].status = results[1][i].status
            \/ /\ results[1][i].status = "prepared"
               /\ results'[1][i].status \in {"completed", "failed"}
    /\ \A i \in (Len(results[1]) + 1)..Len(results'[1]) :
         results'[1][i].status \in SkippedStatuses \cup {"prepared"}

\* C9 (states): the returned response holds no prepared result, and a
\* result is completed only if the insertion call returned without raising.
C9_State ==
    /\ resp[1] = "returned" =>
         \A i \in 1..Len(results[1]) : results[1][i].status # "prepared"
    /\ \A i \in 1..Len(results[1]) :
         results[1][i].status = "completed" => outcome[1] = "True"

\* C9: each document only takes the transitions received -> {skipped_duplicate,
\* skipped_empty, prepared} and prepared -> {completed, failed}; no returned
\* result is prepared, a skipped status never changes, completed requires
\* that the insertion call returned.
C9_StateMachine == [][C9_Step]_vars /\ []C9_State

\* a returned response with a completed and a skipped result
C9_Witness ==
    /\ resp[1] = "returned"
    /\ \E i, j \in 1..Len(results[1]) :
         /\ results[1][i].status = "completed"
         /\ results[1][j].status = "skipped_duplicate"

\* C10: a save call that ends with DUPLICATE_CONTENT or EMPTY_CONTENT made
\* no embedding call, no insert and no delete_collection, and a document
\* that process_files_batch marked skipped is not handed to the insertion
\* call: nothing of it is embedded or stored.
C10_RejectedBeforeWork ==
    /\ \A p \in Procs :
         outcome[p] \in {DUPLICATE_CONTENT, EMPTY_CONTENT} =>
            /\ ~effects[p].embedded
            /\ ~effects[p].deleted
            /\ batches[p] = <<>>
            /\ ItemsOf(p) = {}
    /\ \A p \in Procs : \A i \in 1..Len(results[p]) :
         results[p][i].status \in SkippedStatuses =>
            /\ results[p][i].file_id \notin DocFiles(p)
            /\ \A j \in 1..Len(req[p].docs) :
                 req[p].docs[j].file # results[p][i].file_id
            /\ \A it \in ItemsOf(p) : it.file # results[p][i].file_id

\* a batch whose insertion call embedded and stored another document while
\* one document was skipped as duplicate
C10_Witness ==
    /\ effects[1].embedded /\ ItemsOf(1) # {}
    /\ \E i \in 1..Len(results[1]) : results[1][i].status = "skipped_duplicate"

\* C11: a call whose batch insert raised returns the exception only after
\* every submitted batch has finished (written or failed): when the call
\* has ended with the insert error, none of its batches is still queued,
\* waiting for a permit or being inserted.
C11_RaisedAfterAllFinished ==
    \A p \in Procs :
        outcome[p] = INSERT_ERROR =>
            /\ WithStatus(p, {"queued", "waiting", "running"}) = {}
            /\ WithStatus(p, {"done", "failed"}) = BatchIds(p)

\* a call of three batches that ended with the insert error after one of
\* its batches failed and the other two were written
C11_Witness ==
    \E p \in Procs :
        /\ outcome[p] = INSERT_ERROR
        /\ Len(batches[p]) = 3
        /\ Cardinality(WithStatus(p, {"failed"})) = 1
        /\ Cardinality(WithStatus(p, {"done"})) = 2

\* C12: once a batch insert of a call has failed, no batch of that call
\* that is still in the queue of the executor is started afterwards.
C12_NoStartAfterFailure ==
    [][\A p \in Procs : \A k \in BatchIds(p) :
          (WithStatus(p, {"failed"}) # {} /\ batches[p][k].st = "queued")
              => batches'[p][k].st = "queued"]_vars

\* the values get_dynamic_batch_size() returns with its default arguments
BatchSizes ==
    {get_dynamic_batch_size(c, m, DefaultMaxSize, DefaultMinSize) :
        c \in CpuReadings, m \in MemReadings}
SliceOf(p, k) == batches[p][k].lo..batches[p][k].hi
BatchesOfItem(p, i) == {k \in BatchIds(p) : i \in SliceOf(p, k)}

\* C13: when every insert of a call succeeded, its batches partition its n
\* items: every item is in exactly one batch, every batch carries between
\* 1 and batch_size items, every batch was written by its one insert call,
\* and there are ceil(n / batch_size) batches, for the batch size the
\* sizer returned.
C13_BatchesPartitionItems ==
    \A p \in Procs :
        (outcome[p] = "True" /\ batches[p] # <<>>) =>
            LET n == Len(items[p])
            IN  /\ \A i \in 1..n : Cardinality(BatchesOfItem(p, i)) = 1
                /\ \A k \in BatchIds(p) :
                      /\ SliceOf(p, k) \subseteq 1..n
                      /\ Cardinality(SliceOf(p, k)) >= 1
                      /\ batches[p][k].st = "done"
                      /\ BatchItems(p, k) \subseteq store.items
                /\ \E batch_size \in BatchSizes :
                      /\ \A k \in BatchIds(p) :
                            Cardinality(SliceOf(p, k)) <= batch_size
                      /\ Len(batches[p]) = CeilDiv(n, batch_size)
                /\ Cardinality(ItemsOf(p)) = n

\* a call that wrote its 21 items in three batches (10, 10 and 1 items)
\* and returned True
C13_Witness ==
    \E p \in Procs :
        /\ outcome[p] = "True"
        /\ Len(items[p]) > DefaultMinSize
        /\ Len(batches[p]) = CeilDiv(Len(items[p]), DefaultMinSize)
        /\ Cardinality(SliceOf(p, Len(batches[p]))) < DefaultMinSize

\* C14: a call one of whose batch inserts never returns does not block for
\* ever: it eventually returns to its caller with an error.
C14_HungInsertFailsCall ==
    \A p \in Procs :
        (WithStatus(p, {"hung"}) # {}) ~> (Ended(p) /\ SaveRaised(p))

SizerReturned == fn.op = "get_dynamic_batch_size" /\ fn.returned

\* C15: for all readings and all max_size >= min_size >= 1, the value b
\* returned by get_dynamic_batch_size satisfies min_size <= b <= max_size.
C15_BatchSizeInBounds ==
    SizerReturned =>
        /\ fn.ret \in Int
        /\ fn.args.min_size <= fn.ret
        /\ fn.ret <= fn.args.max_size

\* the middle step with max_size // 2 below min_size: min_size is returned
C15_Witness ==
    /\ SizerReturned
    /\ fn.args.cpu_percent = 50 /\ fn.args.available_mem_mb = 1001
    /\ fn.args.max_size \div 2 < fn.args.min_size
    /\ fn.ret = fn.args.min_size

HalfOrMin(a) ==
    IF a.max_size \div 2 >= a.min_size THEN a.max_size \div 2 ELSE a.min_size

\* C16: the staircase: max_size when CPU < 50 and memory > 1000; otherwise
\* the larger of max_size / 2 (integer division) and min_size when CPU < 75
\* and memory > 500; otherwise min_size; in particular CPU = 50 and
\* memory = 1000 are outside the first step, CPU = 75 and memory = 500 are
\* outside the second, and no other value is returned.
C16_Staircase ==
    SizerReturned =>
        LET a == fn.args
            cpu == a.cpu_percent
            mem == a.available_mem_mb
            top == cpu <= 49 /\ mem >= 1001
            mid == ~top /\ cpu <= 74 /\ mem >= 501
        IN  /\ top => fn.ret = a.max_size
            /\ mid => fn.ret = HalfOrMin(a)
            /\ (~top /\ ~mid) => fn.ret = a.min_size
            /\ (cpu = 50 \/ mem = 1000) => fn.ret \in {HalfOrMin(a), a.min_size}
            /\ (cpu = 75 \/ mem = 500) => fn.ret = a.min_size
            /\ fn.ret \in {a.max_size, HalfOrMin(a), a.min_size}

\* the default arguments at the boundary readings CPU = 50, memory = 1001:
\* the middle step, 500
C16_Witness ==
    /\ SizerReturned
    /\ fn.args.cpu_percent = 50 /\ fn.args.available_mem_mb = 1001
    /\ fn.args.max_size = DefaultMaxSize /\ fn.args.min_size = DefaultMinSize
    /\ fn.ret = DefaultMaxSize \div 2

Supported == {"character", "token"}
\* the call of p was made with split=True under an unsupported TEXT_SPLITTER
UnknownSplitter(p) ==
    /\ Started(p) /\ req[p].split
    /\ req[p].TEXT_SPLITTER \notin Supported

\* C17: under a TEXT_SPLITTER value that names neither character nor
\* token, a call with split=True constructs no splitter, and (unless the
\* duplicate check rejected it first) it ends with the configuration
\* error, with no embedding call, no insert and no delete_collection.
C17_UnknownSplitterRejected ==
    \A p \in Procs :
        UnknownSplitter(p) =>
            /\ effects[p].splitter = "none"
            /\ ~effects[p].embedded /\ ~effects[p].deleted
            /\ batches[p] = <<>>
            /\ Ended(p) =>
                  outcome[p] \in {INVALID_SPLITTER, DUPLICATE_CONTENT, QUERY_ERROR}

\* the documents the call of p is to store: its chunks
ToStore(p) == IF req[p].split THEN SplitDocs(req[p].docs) ELSE req[p].docs
ValidSplitter(p) == req[p].split => SplitterFor(req[p].TEXT_SPLITTER) # "none"
\* the call of p got a metadata list whose length is not the number of
\* documents to store
ListMismatch(p) ==
    /\ Started(p) /\ req[p].meta = "list" /\ ValidSplitter(p)
    /\ Len(req[p].metas) # Len(ToStore(p))
\* the call of p made no embedding call, no insert, no delete_collection
Untouched(p) ==
    /\ ~effects[p].embedded /\ ~effects[p].deleted
    /\ batches[p] = <<>> /\ ItemsOf(p) = {}

MetadataReturned == fn.op = "metadata" /\ fn.returned

\* C19: the metadata of an item handed to insert has no None value and no
\* datetime, list or dict value, whatever the document metadata and the
\* metadata argument (absent, mapping, or list entry) were; a datetime,
\* list or dict value that is kept is kept as its string form.
C19_MetadataSanitised ==
    MetadataReturned =>
        LET given == IF fn.args.form = "none" THEN << >> ELSE fn.args.meta
            doc == fn.args.doc_metadata
            source(k) == IF k \in DOMAIN given THEN given[k] ELSE doc[k]
        IN  /\ \A k \in DOMAIN fn.ret :
                  fn.ret[k][1] \notin {"None", "datetime", "list", "dict"}
            /\ \A k \in ((DOMAIN doc) \cup (DOMAIN given)) \ {"embedding_config"} :
                  /\ source(k)[1] = "None" => k \notin DOMAIN fn.ret
                  /\ source(k)[1] \in {"datetime", "list", "dict"} =>
                        (k \in DOMAIN fn.ret /\ fn.ret[k] = <<"str", source(k)[2]>>)

\* a document with a list value, merged with a list entry that sets the
\* same key to None and embedding_config to a dict
C19_Witness ==
    /\ MetadataReturned
    /\ fn.args.form = "list"
    /\ "name" \in DOMAIN fn.args.doc_metadata
    /\ fn.args.doc_metadata["name"][1] = "list"
    /\ DOMAIN fn.args.meta = MetaKeys
    /\ fn.args.meta["name"][1] = "None"
    /\ fn.args.meta["embedding_config"][1] = "dict"
    /\ DOMAIN fn.ret = {"embedding_config"}

GatewayQueried == fn.op = "gateway" /\ fn.queried
MatchingIds(its, file_id) == {it.id : it \in {x \in its : x.file = file_id}}

\* C20: after any sequence of inserts, the query by file_id X returns one
\* group, which holds exactly the inserted items whose file_id is X, none
\* of another file, and is empty when no inserted item has file_id X.
C20_QueryByFileId ==
    GatewayQueried =>
        /\ Len(fn.ret.ids) = 1
        /\ fn.ret.ids[1] = MatchingIds(fn.at, fn.file_id)
        /\ \A it \in fn.at : it.file # fn.file_id => it.id \notin fn.ret.ids[1]
        /\ (\A it \in fn.at : it.file # fn.file_id) => fn.ret.ids[1] = {}

\* a query for file 1 after inserts that stored every item of files 1 and 2
C20_Witness ==
    /\ GatewayQueried /\ fn.file_id = 1
    /\ Cardinality(fn.ret.ids[1]) = 2
    /\ \E it \in fn.at : it.file = 2
    /\ fn.at = StoreItems

\* C21: process_files_batch never raises past its boundary: whatever the
\* vector store and the file store do, the request ends by returning its
\* response, and every file that was skipped or handed to the insertion
\* call has its status in results.
C21_BatchNeverRaises ==
    \A p \in Procs :
        (kind[p] = "batch" /\ Ended(p)) =>
            /\ resp[p] = "returned"
            /\ pc[p] = "b_done"
            /\ \A i \in 1..Len(results[p]) :
                 results[p][i].status \in
                    {"completed", "failed", "skipped_duplicate", "skipped_empty"}

NamesReturned == fn.op = "names" /\ fn.returned
HasHyphen(id) == \E i \in 1..Len(id) : id[i] = "-"

\* C22 as stated: different user ids give different user collection names,
\* knowledge bases with different ids get different collection names
\* whatever their names, and a user collection name is never a
\* knowledge-base collection name.
C22_Original ==
    NamesReturned =>
        /\ fn.args.id1 # fn.args.id2 => fn.ret.user1 # fn.ret.user2
        /\ fn.args.id1 # fn.args.id2 => fn.ret.kb1 # fn.ret.kb2
        /\ {fn.ret.user1, fn.ret.user2} \cap {fn.ret.kb1, fn.ret.kb2} = {}

\* C22: different user ids give different user collection names; knowledge
\* bases with different ids get different collection names, whatever their
\* names, when the two ids have the same length or hold no hyphen; a user
\* collection name is never a knowledge-base collection name.
C22_DistinctOwnersDistinctNames ==
    NamesReturned =>
        /\ fn.args.id1 # fn.args.id2 => fn.ret.user1 # fn.ret.user2
        /\ ( /\ fn.args.id1 # fn.args.id2
             /\ \/ Len(fn.args.id1) = Len(fn.args.id2)
                \/ (~HasHyphen(fn.args.id1) /\ ~HasHyphen(fn.args.id2)) )
              => fn.ret.kb1 # fn.ret.kb2
        /\ {fn.ret.user1, fn.ret.user2} \cap {fn.ret.kb1, fn.ret.kb2} = {}

\* two knowledge bases whose names have the same slug and whose ids are
\* different, of the same length and hyphenated
C22_Witness ==
    /\ NamesReturned
    /\ fn.args.name1 # fn.args.name2
    /\ slugify(fn.args.name1) = slugify(fn.args.name2)
    /\ slugify(fn.args.name1) # << >>
    /\ fn.args.id1 # fn.args.id2
    /\ Len(fn.args.id1) = MaxIdLen /\ Len(fn.args.id2) = MaxIdLen
    /\ HasHyphen(fn.args.id1) /\ HasHyphen(fn.args.id2)
    /\ fn.ret.kb1 # fn.ret.kb2

HeaderReturned == fn.op = "header" /\ fn.returned
HasPageContext(m) == m.page_label # "" \/ m.page_number # "None" \/ m.page # "None"
\* the text that follows the first Len(header) tokens
After(text, header) == SubSeq(text, Len(header) + 1, Len(text))
\* the text begins with the header and goes on with something else
BeginsOnce(text, header) ==
    StartsWith(text, header) /\ ~StartsWith(After(text, header), header)

\* C23 as stated: the stored text of every chunk of a document with page
\* context begins with the page header exactly once, whatever the text of
\* the chunk; the stored text of a chunk of a document without page
\* context is the text of the chunk.
C23_Original ==
    HeaderReturned =>
        LET header == PageHeader(fn.args.metadata)
        IN  IF HasPageContext(fn.args.metadata)
            THEN header # << >> /\ BeginsOnce(fn.ret, header)
            ELSE fn.ret = Strip(fn.args.page_content)

\* C23: the stored text of every chunk of a document with page context
\* begins with the page header; one header at the start of the chunk's text
\* is removed before the header is prepended, so the stored text begins
\* with the header exactly once unless the chunk's text began with the
\* header twice; without page context the stored text is the chunk's text.
C23_HeaderPrependedOnce ==
    HeaderReturned =>
        LET header == PageHeader(fn.args.metadata)
            content == Strip(fn.args.page_content)
            twice == /\ StartsWith(content, header)
                     /\ StartsWith(Strip(After(content, header)), header)
        IN  IF HasPageContext(fn.args.metadata)
            THEN /\ header # << >>
                 /\ StartsWith(fn.ret, header)
                 /\ ~twice => BeginsOnce(fn.ret, header)
                 /\ StartsWith(content, header) =>
                       fn.ret = header \o Strip(After(content, header))
                 /\ ~StartsWith(content, header) => fn.ret = header \o content
            ELSE fn.ret = content

\* a chunk whose text is the header of its page followed by text: the
\* stored text is the same header followed by the same text
C23_Witness ==
    /\ HeaderReturned
    /\ fn.args.metadata.page_label = "" /\ fn.args.metadata.page_number = "2"
    /\ StartsWith(fn.args.page_content, HeaderOf("3"))
    /\ Len(fn.args.page_content) > 3
    /\ fn.ret = fn.args.page_content

\* task t was created and has ended
TaskDone(t) ==
    t <= Len(task_state) /\ task_state[t].status \notin Unfinished
\* task t is registered under the id create_task gave it
Registered(t) ==
    /\ task_state[t].task_id \in DOMAIN tasks
    /\ tasks[task_state[t].task_id] = t
\* the id of task t is not in the registry
Removed(t) ==
    t <= Len(task_state) /\ task_state[t].task_id \notin DOMAIN tasks
\* the stop_task calls that started in this step
NewStops == {i \in 1..Len(stops') : i > Len(stops)}

\* C24, first part: a task that has not finished is registered under its id
C24_RegisteredUntilDone ==
    \A t \in 1..Len(task_state) :
        task_state[t].status \in Unfinished => Registered(t)
\* C24, second part: a removed id does not come back, a step removes at
\* most one id, only of a finished task, and changes no other entry, and
\* stop_task on an unregistered id raises ValueError and changes nothing
C24_RegistryStep ==
    /\ \A id \in issued : id \notin DOMAIN tasks => id \notin DOMAIN tasks'
    /\ \A id \in DOMAIN tasks \cap DOMAIN tasks' : tasks'[id] = tasks[id]
    /\ Cardinality(DOMAIN tasks \ DOMAIN tasks') <= 1
    /\ \A id \in DOMAIN tasks \ DOMAIN tasks' : TaskDone(tasks[id])
    /\ \A i \in NewStops :
         stops'[i].task_id \notin DOMAIN tasks
             => stops'[i].result = "ValueError" /\ tasks' = tasks
\* C24: a task id is in the registry from create_task until the task
\* finishes (normally, by exception or by cancellation through stop_task);
\* after that the id is eventually removed and never reappears, a removal
\* leaves every other entry unchanged, and stop_task on an id that is not
\* registered raises ValueError without changing the registry
C24_TaskRegistry ==
    /\ [] C24_RegisteredUntilDone
    /\ [][C24_RegistryStep]_vars
    /\ \A t \in 1..MaxTasks :
         TaskDone(t) ~> Removed(t)
\* a cancelled task was removed while another task is still registered,
\* and a stop_task call on an unregistered id raised ValueError
C24_Witness ==
    /\ \E t \in 1..Len(task_state) :
         /\ task_state[t].status = "cancelled"
         /\ task_state[t].task_id \notin DOMAIN tasks
    /\ \E t \in 1..Len(task_state) :
         task_state[t].status = "pending" /\ Registered(t)
    /\ \E i \in 1..Len(stops) : stops[i].result = "ValueError"

\* no knowledge base, as the running cycle read them, lists the file id
UnlinkedAsRead(id) ==
    \A k \in 1..Len(cycle.knowledge) :
        cycle.knowledge[k] # NoData => id \notin cycle.knowledge[k].file_ids
\* created more than 24 hours before the running cycle started
OldEnough(created_at) == created_at + DAY < cycle.start
\* C25, the steps: a row or a vector is deleted only for a file that is
\* old enough and unlinked as read in the cycle, and a failing vector
\* delete is followed by the record delete of the same file
C25_CleanupStep ==
    /\ \A row \in file_rows \ file_rows' :
         OldEnough(row.created_at) /\ UnlinkedAsRead(row.id)
    /\ \A v \in vectors \ vectors' :
         \E row \in file_rows :
            /\ v.file_id = row.id
            /\ v.collection = UserCollection(row.user_id)
            /\ OldEnough(row.created_at) /\ UnlinkedAsRead(row.id)
    /\ (cycle.pc = "vector" /\ cycle'.vector_failed)
         => cycle'.pc = "record" /\ cycle'.file = cycle.file
\* C25: in every cycle of periodic_file_cleanup a file record, and its
\* vectors in the user collection of its owner, are deleted only if the
\* file was created more than 24 hours before the start of the cycle and
\* no knowledge base read in that cycle lists its id; a failing vector
\* delete does not prevent the deletion of the record, and an exception in
\* one cycle does not stop the following cycles
C25_CleanupCycles ==
    /\ [][C25_CleanupStep]_vars
    /\ [](cycle.raised => <>(cycle.pc = "knowledge"))
\* the record of an expired file was deleted although its vector delete
\* failed and left its vector, while a file of the same age that a
\* knowledge base read in the cycle lists was kept
C25_Witness ==
    /\ cycle.pc = "loop" /\ cycle.vector_failed
    /\ cycle.file \notin file_rows
    /\ \E v \in vectors : v.file_id = cycle.file.id
    /\ \E row \in file_rows :
         /\ row.created_at = cycle.file.created_at
         /\ ~UnlinkedAsRead(row.id)

\* the call of p ran with overwrite=False and add=False over a collection
\* that existed when it was made, and has ended
EndedOnExisting(p) ==
    /\ Ended(p) /\ kind[p] = "save"
    /\ ~req[p].overwrite /\ ~req[p].add
    /\ store.exists /\ ItemsOf(p) = {}
\* the checks before the existence probe that do not depend on the store
PassesChecks(p) ==
    /\ ValidSplitter(p)
    /\ Len(ToStore(p)) > 0
    /\ req[p].meta = "list" => Len(req[p].metas) = Len(ToStore(p))

Committed(p) == UNION {BatchItems(p, k) : k \in WithStatus(p, {"done"})}

\* C27: a call with overwrite=True on an existing collection deletes the
\* collection before the embeddings are computed; if the embedding call or
\* a batch insert then fails, the call raises that error and the earlier
\* contents are not restored: the collection is absent, or holds only the
\* batches that committed.
C27_OverwriteNotRestored ==
    \A p \in Procs :
        (Started(p) /\ kind[p] = "save" /\ req[p].overwrite) =>
            /\ (effects[p].embedded \/ effects[p].deleted) => InitialItems = {}
            /\ (pc[p] = "embed" /\ ~effects[p].deleted) => ~store.exists
            /\ (Ended(p) /\ effects[p].deleted) =>
                  /\ store.items = Committed(p)
                  /\ store.exists <=> Committed(p) # {}
                  /\ WithStatus(p, {"failed"}) # {} =>
                        pc[p] = "raised" /\ outcome[p] = INSERT_ERROR
                  /\ batches[p] = <<>> =>
                        pc[p] = "raised" /\ outcome[p] = EMBED_ERROR
                  /\ outcome[p] \in {"True", EMBED_ERROR, INSERT_ERROR}

\* an overwriting call raised the insert error after it had deleted the
\* existing collection: one batch failed, another committed, and the
\* collection holds the committed batch only
C27_Witness ==
    \E p \in Procs :
        /\ Ended(p) /\ req[p].overwrite /\ effects[p].deleted
        /\ outcome[p] = INSERT_ERROR
        /\ WithStatus(p, {"failed"}) # {} /\ WithStatus(p, {"done"}) # {}
        /\ store.exists /\ store.items = Committed(p)

\* C28: in process_files_batch the metadata list handed to the shared
\* insertion call has one entry per item to store, whatever the number of
\* chunks of each prepared document, so the call never fails with Metadata
\* length mismatch.
C28_OneEntryPerItem ==
    \A p \in Procs :
        (kind[p] = "batch" /\ req[p].meta = "list") =>
            /\ Len(ToStore(p)) > 0 => Len(req[p].metas) = Len(ToStore(p))
            /\ outcome[p] # METADATA_MISMATCH

\* the file the loop of p is at, and whether the collection holds its hash
FileAt(p) == files[p][fidx[p]]
HashHeld(p) == QueryByHash(store, calculate_sha256_string(FileAt(p))) # {}
\* the step appends its file to results as prepared and its content to
\* the documents of the insertion call
Prepares(p) ==
    /\ Len(results'[p]) = Len(results[p]) + 1
    /\ results'[p][Len(results'[p])] = Result(fidx[p], "prepared", "None")
    /\ Len(all_docs'[p]) = Len(all_docs[p]) + 1
    /\ all_docs'[p][Len(all_docs'[p])].content = FileAt(p)
    /\ errors'[p] = errors[p]
\* C29, the step: the check of a file whose hash the collection holds ends
\* without the file being skipped only when the query raised; the file is
\* then prepared and its content collected, or a later statement of the
\* loop body failed
C29_CheckStep ==
    \A p \in Procs :
        (/\ pc[p] = "b_query" /\ pc'[p] # "b_query" /\ HashHeld(p)
         /\ ~(/\ Len(results'[p]) > Len(results[p])
              /\ results'[p][Len(results'[p])].status = "skipped_duplicate"))
        => \/ Prepares(p)
           \/ /\ Len(errors'[p]) = Len(errors[p]) + 1
              /\ errors'[p][Len(errors'[p])].error = getErrorMsg(FILES_ERROR)
              /\ all_docs'[p] = all_docs[p]
\* C29: when the duplicate-check query of process_files_batch raises for a
\* file, the exception is swallowed and the file is treated as not
\* duplicate: it becomes prepared, its content is handed to the insertion
\* call, and no entry of errors reports the failed check.
C29_QueryFailureSwallowed ==
    /\ [][C29_CheckStep]_vars
    /\ [](\A p \in Procs : \A i \in 1..Len(errors[p]) :
            errors[p][i].error # getErrorMsg(QUERY_ERROR))
\* a file whose hash the collection holds is prepared, which only a failed
\* query allows, and its content is in the documents of the insertion call
C29_Witness ==
    \E p \in Procs : \E i \in 1..Len(results[p]) :
        /\ kind[p] = "batch" /\ results[p][i].status = "prepared"
        /\ \E it \in InitialItems :
             it.hash = calculate_sha256_string(files[p][results[p][i].file_id])
        /\ \E d \in 1..Len(all_docs[p]) :
             all_docs[p][d].file = results[p][i].file_id
        /\ errors[p] = <<>>

\* an insert of the step ends, by returning or by raising
InsertEnds(p, k) ==
    /\ k \in BatchIds(p) /\ batches[p][k].st = "running"
    /\ batches'[p][k].st \in {"done", "failed"}
\* C30, the steps: the end of an insert, successful or not, releases one
\* permit
C30_ReleaseStep ==
    \A p \in Procs : \A k \in 1..BigChunks :
        InsertEnds(p, k) => sem' = sem + 1
\* C30, the states: when no call is under way every permit is available
C30_AllPermitsBack ==
    (\A p \in Procs : Started(p) => Ended(p)) => sem = SemaphoreValue
\* C30: for concurrent save calls with any number of batches, when every
\* insert returns or raises, every call returns to its caller (the pools of
\* the calls and the shared semaphore do not deadlock), an insert releases
\* its permit on success and on failure, and once all calls have returned
\* the 5 permits are available again.
C30_CallsReturnPermits ==
    /\ \A p \in Procs : Started(p) ~> Ended(p)
    /\ [][C30_ReleaseStep]_vars
    /\ [] C30_AllPermitsBack
\* every call has returned, each after at least three batches, more than
\* the permits in all, one of them after an insert raised, and the permits
\* are back
C30_Witness ==
    /\ \A p \in Procs : Ended(p) /\ Len(batches[p]) >= 3
    /\ \E p \in Procs : WithStatus(p, {"failed"}) # {}
    /\ \E p \in Procs : WithStatus(p, {"done"}) = BatchIds(p)
    /\ sem = SemaphoreValue

====
